---- MODULE Spec2Model ----
(***************************************************************************)
(* Model of app.py (NBM 1D Viewer latest-CSV downloader): the URL-probing  *)
(* search find_latest_csv, the existence check url_exists, the retrieval   *)
(* download_csv_bytes, the three st.cache_data caches and the button       *)
(* handler of the page.                                                    *)
(***************************************************************************)
EXTENDS Integers, Sequences, FiniteSets, TLC

(***************************************************************************)
(* CONFIG (app.py lines 12-19)                                             *)
(***************************************************************************)
STATIONS == <<"KXMR", "KTTS", "X1K", "KCOF", "KMLB", "KTIX">>

NBM_VERSIONS_TO_TRY == <<"NBM4.2", "NBM4.1", "NBM4.0">>

DAYS_BACK_short == 3 - 1
DAYS_BACK_long == 3 + 1
DAYS_BACK == 3

TIMEOUT == 20

\* list(range(23, -1, -1)): 23, 22, ..., 0
HOURS_ASC == [i \in 1..24 |-> i - 1]
HOURS_DESC == [i \in 1..24 |-> 24 - i]

BASE == "https://apps.gsl.noaa.gov/nbmviewer/data/archive"

\* ttl=300 of the three @st.cache_data decorators
TTL == 300

(***************************************************************************)
(* Bounds of the model                                                     *)
(***************************************************************************)
\* number of entries of STATIONS the selectbox is exercised with
NumStations == 2
\* number of URLs for which the server answers differently from its default
MaxSpecial == 2
\* number of UTC midnights that pass during a behaviour
MaxRollovers == 1
\* the clock stops at MaxTime seconds; it advances in steps of TickSeconds
MaxTime == 300
TickSeconds == 150
\* number of button presses in a behaviour
MaxRuns == 3

(***************************************************************************)
(* Python values                                                           *)
(***************************************************************************)
\* Optional values: None is the empty tuple, a value v is <<v>>.
None == <<>>
Some(v) == <<v>>

\* an HTTP exchange either raises (transport error, timeout) or answers a status
Raised == [exc |-> TRUE, status |-> 0]
Status(s) == [exc |-> FALSE, status |-> s]
NoResp == [exc |-> FALSE, status |-> -1]

\* no exception has ended the run
NoError == "none"

(***************************************************************************)
(* datetime.date arithmetic: today_utc - timedelta(days=day_offset)        *)
(***************************************************************************)
IsLeap(y) == (y % 4 = 0 /\ y % 100 # 0) \/ y % 400 = 0

DaysInMonth(y, m) ==
    IF m = 2 THEN (IF IsLeap(y) THEN 29 ELSE 28)
    ELSE IF m \in {4, 6, 9, 11} THEN 30 ELSE 31

PrevDay(date) ==
    LET y == date[1]  m == date[2]  d == date[3] IN
    IF d > 1 THEN <<y, m, d - 1>>
    ELSE IF m > 1 THEN <<y, m - 1, DaysInMonth(y, m - 1)>>
    ELSE <<y - 1, 12, 31>>

NextDay(date) ==
    LET y == date[1]  m == date[2]  d == date[3] IN
    IF d < DaysInMonth(y, m) THEN <<y, m, d + 1>>
    ELSE IF m < 12 THEN <<y, m + 1, 1>>
    ELSE <<y + 1, 1, 1>>

RECURSIVE MinusDays(_, _)
MinusDays(date, n) == IF n = 0 THEN date ELSE MinusDays(PrevDay(date), n - 1)

(***************************************************************************)
(* String formatting. The text of {n:0wd} is the w decimal digits of n;   *)
(* it is held as the number 1dd..d, the digits behind a leading 1, so that *)
(* 07 and 7 differ. A formatted string is the tuple of its pieces.         *)
(***************************************************************************)
Digits(n, w) == 10^w + (n % (10^w))

\* f"{BASE}/{y:04d}/{m:02d}/{d:02d}/{nbm_version}/{hh:02d}/{station}.csv"
build_url(y, m, d, hh, nbm_version, station) ==
    <<BASE, Digits(y, 4), Digits(m, 2), Digits(d, 2), nbm_version, Digits(hh, 2),
      station, ".csv">>

\* f"{station}_{year:04d}{month:02d}{day:02d}{hour:02d}_{version}.csv"
FileNameNoHour(st, f) ==
    <<st, "_", Digits(f.year, 4), Digits(f.month, 2), Digits(f.day, 2),
      "_", f.version, ".csv">>
FileName(st, f) ==
    <<st, "_", Digits(f.year, 4), Digits(f.month, 2), Digits(f.day, 2),
      Digits(f.hour, 2), "_", f.version, ".csv">>

(***************************************************************************)
(* State                                                                   *)
(***************************************************************************)
VARIABLES
    wallDate,     \* the current UTC date, dt.datetime.utcnow().date()
    now,          \* the clock the caches read, in seconds
    rollovers,    \* midnights passed so far
    special,      \* remote server: URL -> answers, where not the default
    dflt,         \* remote server: the answers for every other URL
    pc,           \* position of the script run
    station,      \* st.selectbox value of the run
    today_utc,    \* find_latest_csv: local today_utc
    day_offset,   \* find_latest_csv: loop variable
    hh_i,         \* find_latest_csv: position in HOURS_DESC
    ver_i,        \* find_latest_csv: position in NBM_VERSIONS_TO_TRY
    url,          \* find_latest_csv: local url, the argument of url_exists
    hd,           \* url_exists: answer to requests.head in the current call
    gt,           \* url_exists: answer to requests.get in the current call
    inflight,     \* the requests sent and not yet answered
    found,        \* value returned by find_latest_csv(station)
    log,          \* URLs handed to url_exists in this run, in order
    rets,         \* values url_exists returned in this run, in order
    nreq,         \* HEAD and GET requests issued by url_exists in this run
    dlreqs,       \* URLs of the download requests issued in this run
    dl,           \* download_csv_bytes: answer to requests.get in this run
    served,       \* per URL: the bytes the server last delivered for it
    cacheUrl,     \* st.cache_data of url_exists: url -> [val, at]
    cacheFind,    \* st.cache_data of find_latest_csv: station -> [val, at]
    cacheDl,      \* st.cache_data of download_csv_bytes: url -> [val, at]
    csv_bytes,    \* value returned by download_csv_bytes
    offered,      \* st.download_button: [file_name, data]
    err,          \* exception that ended the run
    hist,         \* per station: the last execution of the body of find_latest_csv
    lastSearch,   \* per station: the last call of find_latest_csv, cached or not
    run,          \* number of button presses so far
    prior,        \* lastSearch of this run's station when the button was pressed
    priorBody     \* hist of this run's station when the button was pressed

vars == <<wallDate, now, rollovers, special, dflt, pc, station, today_utc,
          day_offset, hh_i, ver_i, url, hd, gt, inflight, found, log, rets, nreq,
          dlreqs, dl, served, cacheUrl, cacheFind, cacheDl, csv_bytes, offered,
          err, hist, lastSearch, run, prior, priorBody>>

worldVars == <<special, dflt>>
clockVars == <<wallDate, now, rollovers>>
loopVars == <<today_utc, day_offset, hh_i, ver_i>>
cacheVars == <<cacheUrl, cacheFind, cacheDl>>
uiVars == <<csv_bytes, offered, dlreqs, dl, served>>
runVars == <<run, prior, priorBody>>

(***************************************************************************)
(* The remote server and the requests library                              *)
(***************************************************************************)
ServerMode(u) == IF u \in DOMAIN special THEN special[u] ELSE dflt

\* requests.head(url, timeout=TIMEOUT, allow_redirects=True)
requests_head(u) == ServerMode(u).head

\* requests.get(url, timeout=TIMEOUT, stream=True, allow_redirects=True)
requests_get(u) == ServerMode(u).get

(***************************************************************************)
(* st.cache_data(ttl=300): an entry answers until ttl seconds after it was *)
(* stored; exceptions are not stored                                       *)
(***************************************************************************)
CacheNeverFresh(c, k, t) == FALSE
CacheFresh(c, k, t) == k \in DOMAIN c /\ t < c[k].at + TTL

CachePut(c, k, v, t) == (k :> [val |-> v, at |-> t]) @@ c

CachePurge(c, t) == [k \in {x \in DOMAIN c : t < c[x].at + TTL} |-> c[k]]

(***************************************************************************)
(* url_exists (lines 29-47): the decisions of the function body            *)
(***************************************************************************)
\* line 39: r.status_code in (403, 405)
HeadBlockedOnly403(r) == r.status = 403
HeadBlocked(r) == r.status \in {403, 405}

\* lines 35-42: what follows the HEAD request
AfterHeadNoCatch(r) ==
    IF r.exc THEN "raise"
    ELSE IF r.status = 200 THEN "true"
    ELSE IF HeadBlocked(r) THEN "fallback"
    ELSE "false"
AfterHead(r) ==
    IF r.exc THEN "fallback"
    ELSE IF r.status = 200 THEN "true"
    ELSE IF HeadBlocked(r) THEN "fallback"
    ELSE "false"

\* lines 43-47: what follows the fallback GET request
AfterGet(r) ==
    IF r.exc THEN "false"
    ELSE IF r.status = 200 THEN "true" ELSE "false"

(***************************************************************************)
(* find_latest_csv (lines 50-71)                                           *)
(***************************************************************************)
\* line 62: day = today_utc - dt.timedelta(days=day_offset)
LoopDayFromClock(today, off) == MinusDays(wallDate, off)
LoopDay(today, off) == MinusDays(today, off)

\* line 67: url = build_url(y, m, d, hh, ver, station)
LoopUrl(today, off, hi, vi, st) ==
    LET day == LoopDay(today, off) IN
    build_url(day[1], day[2], day[3], HOURS_DESC[hi], NBM_VERSIONS_TO_TRY[vi], st)

\* line 69: the dict returned for the URL that exists
LoopResult(today, off, hi, vi, st) ==
    LET day == LoopDay(today, off) IN
    [url |-> LoopUrl(today, off, hi, vi, st),
     year |-> day[1], month |-> day[2], day |-> day[3],
     hour |-> HOURS_DESC[hi], version |-> NBM_VERSIONS_TO_TRY[vi]]

\* line 68: if url_exists(url): return
ReturnsNever(r) == FALSE
ReturnsOn(r) == r

\* lines 102-104: if not found: st.error(...); st.stop()
AfterFind(f) == IF f = None THEN "notfound" ELSE "found"

\* the body of find_latest_csv returns v: the cache stores it, the script goes on
FindReturn(v) ==
    /\ found' = v
    /\ cacheFind' = CachePut(cacheFind, station, v, now)
    /\ hist' = (station :> [val |-> v, at |-> now]) @@ hist
    /\ lastSearch' = (station :> [val |-> v, at |-> now]) @@ lastSearch
    /\ pc' = AfterFind(v)

\* url_exists(url) returns r to the loop of find_latest_csv (lines 65-71)
UrlReturn(r) ==
    /\ rets' = Append(rets, r)
    /\ IF ReturnsOn(r)
       THEN /\ FindReturn(Some(LoopResult(today_utc, day_offset, hh_i, ver_i, station)))
            /\ UNCHANGED loopVars
       ELSE IF ver_i < Len(NBM_VERSIONS_TO_TRY)
       THEN /\ ver_i' = ver_i + 1
            /\ pc' = "loop"
            /\ UNCHANGED <<today_utc, day_offset, hh_i, found, cacheFind, hist,
                           lastSearch>>
       ELSE IF hh_i < Len(HOURS_DESC)
       THEN /\ ver_i' = 1
            /\ hh_i' = hh_i + 1
            /\ pc' = "loop"
            /\ UNCHANGED <<today_utc, day_offset, found, cacheFind, hist, lastSearch>>
       ELSE IF day_offset + 1 < DAYS_BACK
       THEN /\ ver_i' = 1
            /\ hh_i' = 1
            /\ day_offset' = day_offset + 1
            /\ pc' = "loop"
            /\ UNCHANGED <<today_utc, found, cacheFind, hist, lastSearch>>
       ELSE /\ FindReturn(None)
            /\ UNCHANGED loopVars

\* an exception leaves the function and ends the script run
Propagate(e) ==
    /\ pc' = "failed"
    /\ err' = e

\* line 100: found = find_latest_csv(station), answered by its cache or by
\* entering the body (line 59)
FindCall ==
    /\ pc = "find"
    /\ IF CacheFresh(cacheFind, station, now)
       THEN /\ found' = cacheFind[station].val
            /\ pc' = AfterFind(cacheFind[station].val)
            /\ lastSearch' = (station :> [val |-> cacheFind[station].val,
                                          at |-> now]) @@ lastSearch
            /\ UNCHANGED loopVars
       ELSE /\ today_utc' = wallDate
            /\ day_offset' = 0
            /\ hh_i' = 1
            /\ ver_i' = 1
            /\ pc' = "loop"
            /\ UNCHANGED <<found, lastSearch>>
    /\ UNCHANGED <<clockVars, worldVars, station, url, hd, gt, inflight, log, rets,
                   nreq, cacheVars, uiVars, err, hist, runVars>>

\* lines 67-68 and 29-36: the loop builds the next URL and calls url_exists,
\* which answers from its cache or sends the HEAD request
Probe ==
    /\ pc = "loop"
    /\ LET u == LoopUrl(today_utc, day_offset, hh_i, ver_i, station) IN
       /\ url' = u
       /\ log' = Append(log, u)
       /\ hd' = NoResp
       /\ gt' = NoResp
       /\ IF CacheFresh(cacheUrl, u, now)
          THEN /\ UrlReturn(cacheUrl[u].val)
               /\ UNCHANGED <<inflight, nreq>>
          ELSE /\ inflight' = inflight \cup {<<"HEAD", u>>}
               /\ nreq' = nreq + 1
               /\ pc' = "head"
               /\ UNCHANGED <<loopVars, rets, found, cacheFind, hist, lastSearch>>
    /\ UNCHANGED <<clockVars, worldVars, station, cacheUrl, cacheDl, uiVars, err, runVars>>

\* lines 36-42: the HEAD request is answered
HeadRecv ==
    /\ pc = "head"
    /\ LET r == requests_head(url)
           next == AfterHead(r) IN
       /\ hd' = r
       /\ CASE next = "fallback" ->
                 /\ inflight' = (inflight \ {<<"HEAD", url>>}) \cup {<<"GET", url>>}
                 /\ nreq' = nreq + 1
                 /\ pc' = "get"
                 /\ UNCHANGED <<loopVars, found, rets, cacheUrl, cacheFind, hist,
                                lastSearch, err>>
            [] next = "raise" ->
                 /\ inflight' = inflight \ {<<"HEAD", url>>}
                 /\ Propagate("TransportError")
                 /\ UNCHANGED <<loopVars, found, rets, nreq, cacheUrl, cacheFind, hist,
                                lastSearch>>
            [] OTHER ->
                 /\ inflight' = inflight \ {<<"HEAD", url>>}
                 /\ cacheUrl' = CachePut(cacheUrl, url, next = "true", now)
                 /\ UrlReturn(next = "true")
                 /\ UNCHANGED <<nreq, err>>
    /\ UNCHANGED <<clockVars, worldVars, station, url, gt, log, cacheDl, uiVars, runVars>>

\* lines 44-47: the fallback GET request is answered
GetRecv ==
    /\ pc = "get"
    /\ LET r == requests_get(url)
           next == AfterGet(r) IN
       /\ gt' = r
       /\ inflight' = inflight \ {<<"GET", url>>}
       /\ IF next = "raise"
          THEN /\ Propagate("TransportError")
               /\ UNCHANGED <<loopVars, found, rets, cacheUrl, cacheFind, hist,
                              lastSearch>>
          ELSE /\ cacheUrl' = CachePut(cacheUrl, url, next = "true", now)
               /\ UrlReturn(next = "true")
               /\ UNCHANGED err
    /\ UNCHANGED <<clockVars, worldVars, station, url, hd, log, nreq, cacheDl, uiVars,
                   runVars>>

\* UTC midnight passes
Midnight ==
    /\ rollovers < MaxRollovers
    /\ rollovers' = rollovers + 1
    /\ wallDate' = NextDay(wallDate)
    /\ UNCHANGED <<now, worldVars, pc, station, loopVars, url, hd, gt, inflight, found,
                   log, rets, nreq, cacheVars, uiVars, err, hist, lastSearch, runVars>>

(***************************************************************************)
(* download_csv_bytes (lines 74-78)                                        *)
(***************************************************************************)
\* line 77: r.raise_for_status() raises HTTPError for a 4xx or 5xx status
RaiseForStatus(r) == r.status \in 400..599

\* line 113: the argument of download_csv_bytes
DownloadTarget(f) == f[1].url

\* line 116: pd.read_csv raises EmptyDataError when there is nothing to parse
ReadCsvRaises(bytes) == bytes = ""

\* what the server may answer to the download request: status and body
DlAnswers ==
    {[resp |-> Status(200), content |-> "csvA"],
     [resp |-> Status(204), content |-> ""],
     [resp |-> Status(300), content |-> "choices"],
     [resp |-> Status(404), content |-> "not found"],
     [resp |-> Status(503), content |-> "unavailable"],
     [resp |-> Raised, content |-> ""]}

(***************************************************************************)
(* The page (lines 87-127)                                                 *)
(***************************************************************************)
\* the script is not running: the page waits for the user
Waiting == pc \in {"idle", "notfound", "previewing", "failed"}

\* line 98: the user chooses a station and presses "Get most recent CSV";
\* the script reruns from the top
Press(st) ==
    /\ Waiting
    /\ run < MaxRuns
    /\ run' = run + 1
    /\ station' = st
    /\ prior' = IF st \in DOMAIN lastSearch THEN Some(lastSearch[st]) ELSE None
    /\ priorBody' = IF st \in DOMAIN hist THEN Some(hist[st]) ELSE None
    /\ pc' = "find"
    /\ url' = None
    /\ hd' = NoResp
    /\ gt' = NoResp
    /\ dl' = NoResp
    /\ found' = None
    /\ log' = <<>>
    /\ rets' = <<>>
    /\ nreq' = 0
    /\ dlreqs' = <<>>
    /\ csv_bytes' = None
    /\ offered' = None
    /\ err' = NoError
    /\ UNCHANGED <<clockVars, worldVars, loopVars, inflight, served, cacheVars, hist,
                   lastSearch>>

\* time passes while the page waits; entries older than ttl leave the caches.
\* The clock does not advance inside a run: every entry a run stores carries the
\* time of the run.
Tick ==
    /\ Waiting
    /\ now + TickSeconds <= MaxTime
    /\ now' = now + TickSeconds
    /\ cacheUrl' = CachePurge(cacheUrl, now')
    /\ cacheFind' = CachePurge(cacheFind, now')
    /\ cacheDl' = CachePurge(cacheDl, now')
    /\ UNCHANGED <<wallDate, rollovers, worldVars, pc, station, loopVars, url, hd, gt,
                   inflight, found, log, rets, nreq, uiVars, err, hist, lastSearch,
                   runVars>>

\* lines 106-113: the success message, then download_csv_bytes(found["url"]),
\* answered by its cache or by sending the GET request (line 76)
DownloadCall ==
    /\ pc = "found"
    /\ LET u == DownloadTarget(found) IN
       IF CacheFresh(cacheDl, u, now)
       THEN /\ csv_bytes' = Some(cacheDl[u].val)
            /\ pc' = "downloaded"
            /\ UNCHANGED <<inflight, dlreqs>>
       ELSE /\ inflight' = inflight \cup {<<"GET", u>>}
            /\ dlreqs' = Append(dlreqs, u)
            /\ pc' = "download"
            /\ UNCHANGED csv_bytes
    /\ UNCHANGED <<clockVars, worldVars, station, loopVars, url, hd, gt, found, log,
                   rets, nreq, dl, served, cacheVars, offered, err, hist, lastSearch,
                   runVars>>

\* lines 76-78: the download request is answered
DownloadRecv ==
    /\ pc = "download"
    /\ \E a \in DlAnswers :
         LET u == dlreqs[Len(dlreqs)] IN
         /\ dl' = a.resp
         /\ inflight' = inflight \ {<<"GET", u>>}
         /\ IF a.resp.exc
            THEN /\ Propagate("TransportError")
                 /\ UNCHANGED <<csv_bytes, cacheDl, served>>
            ELSE IF RaiseForStatus(a.resp)
            THEN /\ Propagate("HTTPError")
                 /\ UNCHANGED <<csv_bytes, cacheDl, served>>
            ELSE /\ csv_bytes' = Some(a.content)
                 /\ served' = (u :> a.content) @@ served
                 /\ cacheDl' = CachePut(cacheDl, u, a.content, now)
                 /\ pc' = "downloaded"
                 /\ UNCHANGED err
    /\ UNCHANGED <<clockVars, worldVars, station, loopVars, url, hd, gt, found, log,
                   rets, nreq, dlreqs, cacheUrl, cacheFind, offered, hist, lastSearch,
                   runVars>>

\* lines 116-127: the preview of the parsed bytes and the download button
Preview ==
    /\ pc = "downloaded"
    /\ IF ReadCsvRaises(csv_bytes[1])
       THEN /\ Propagate("EmptyDataError")
            /\ UNCHANGED offered
       ELSE /\ offered' = Some([file_name |-> FileName(station, found[1]),
                                data |-> csv_bytes[1]])
            /\ pc' = "previewing"
            /\ UNCHANGED err
    /\ UNCHANGED <<clockVars, worldVars, station, loopVars, url, hd, gt, inflight, found,
                   log, rets, nreq, dlreqs, dl, served, csv_bytes, cacheVars, hist,
                   lastSearch, runVars>>

(***************************************************************************)
(* Initial states: a cold process (empty caches), a date, and a remote     *)
(* server described by its default answers and a few URLs that differ      *)
(***************************************************************************)
StationSet == {STATIONS[i] : i \in 1..NumStations}

Mode(h, g) == [head |-> h, get |-> g]

\* a date, a station and the answers of the server for a missing file. Leap day
\* and new year lie inside the lookback window of the dates; the first server
\* allows HEAD, the second rejects every HEAD request.
StartCases == {<<<<2024, 3, 1>>, "KXMR", Mode(Status(404), Status(404))>>,
               <<<<2026, 1, 1>>, "KTIX", Mode(Status(403), Status(404))>>}

\* answers for a published file, given the answers for a missing one
Published(d) == Mode(IF d.head.status = 404 THEN Status(200) ELSE d.head, Status(200))

\* answers for a URL whose requests all time out
TimesOut == Mode(Raised, Raised)

SpecialModes(d) == {Published(d), TimesOut}

\* the (day offset, hour, version) keys whose URLs may differ from the default
CandKeys == {<<0, 23, "NBM4.2">>, <<1, 12, "NBM4.1">>, <<1, 12, "NBM4.0">>,
             <<1, 5, "NBM4.2">>, <<2, 0, "NBM4.0">>}

KeyUrl(date, st, k) ==
    LET day == MinusDays(date, k[1]) IN build_url(day[1], day[2], day[3], k[2], k[3], st)

Worlds(urls, modes) ==
    UNION {[S -> modes] : S \in {T \in SUBSET urls : Cardinality(T) <= MaxSpecial}}

InitProcess ==
    /\ now = 0
    /\ rollovers = 0
    /\ today_utc = wallDate
    /\ day_offset = 0
    /\ hh_i = 1
    /\ ver_i = 1
    /\ url = None
    /\ hd = NoResp
    /\ gt = NoResp
    /\ inflight = {}
    /\ found = None
    /\ log = <<>>
    /\ rets = <<>>
    /\ nreq = 0
    /\ dlreqs = <<>>
    /\ dl = NoResp
    /\ served = <<>>
    /\ prior = None
    /\ priorBody = None
    /\ cacheUrl = <<>>
    /\ cacheFind = <<>>
    /\ cacheDl = <<>>
    /\ csv_bytes = None
    /\ offered = None
    /\ err = NoError
    /\ hist = <<>>
    /\ lastSearch = <<>>

\* one call find_latest_csv(station) in a cold process
InitSearch ==
    /\ \E c \in StartCases : wallDate = c[1] /\ station = c[2] /\ dflt = c[3]
    /\ special \in Worlds({KeyUrl(wallDate, station, k) : k \in CandKeys},
                           SpecialModes(dflt))
    /\ pc = "find"
    /\ run = 1
    /\ InitProcess

NextSearch == FindCall \/ Probe \/ HeadRecv \/ GetRecv \/ Midnight

SpecSearch == InitSearch /\ [][NextSearch]_vars

\* the page of a cold process, before the first button press; the server has
\* published nothing, or one file for every station. The date stays the same:
\* midnight during a search is part of SpecSearch.
AppKeys == {<<0, 23, "NBM4.1">>}

Init ==
    /\ wallDate = <<2024, 3, 1>>
    /\ station = STATIONS[1]
    /\ dflt \in {c[3] : c \in StartCases}
    /\ special \in {[u \in S |-> Published(dflt)] :
                       S \in {{}, {KeyUrl(wallDate, st, k) : st \in StationSet,
                                                               k \in AppKeys}}}
    /\ pc = "idle"
    /\ run = 0
    /\ InitProcess

Next ==
    \/ \E st \in StationSet : Press(st)
    \/ Tick
    \/ FindCall
    \/ Probe
    \/ HeadRecv
    \/ GetRecv
    \/ DownloadCall
    \/ DownloadRecv
    \/ Preview

Spec == Init /\ [][Next]_vars

\* one call find_latest_csv(station) in a cold process, where the server gives
\* one URL of the search space any pair of answers to HEAD and GET
HeadAnswers == {Status(c) : c \in {200, 204, 401, 403, 404, 405, 500}} \cup {Raised}
GetAnswers == {Status(c) : c \in {200, 204, 206, 403, 404, 500}} \cup {Raised}

InitUrl ==
    /\ wallDate = <<2024, 3, 1>>
    /\ station = STATIONS[1]
    /\ dflt = Mode(Status(404), Status(404))
    /\ \E h \in HeadAnswers, g \in GetAnswers :
         special = (KeyUrl(wallDate, station, <<0, 23, "NBM4.1">>) :> Mode(h, g))
    /\ pc = "find"
    /\ run = 1
    /\ InitProcess

SpecUrl == InitUrl /\ [][NextSearch]_vars

(***************************************************************************)
(* The properties. They name the search space on their own: day offsets    *)
(* 0..2 from the date read at the start of the search, hours 0..23, the    *)
(* three versions, 216 keys ranked 1..216 in priority order.               *)
(***************************************************************************)
Versions == <<"NBM4.2", "NBM4.1", "NBM4.0">>

Space == (0..2) \X (0..23) \X {Versions[i] : i \in 1..3}

VerPos(v) == CHOOSE i \in 1..3 : Versions[i] = v

\* smallest day offset first, then the highest hour, then the version list order
Rank(k) == k[1] * 72 + (23 - k[2]) * 3 + VerPos(k[3])

KeyAtRank(i) == <<(i - 1) \div 72, 23 - (((i - 1) % 72) \div 3), Versions[((i - 1) % 3) + 1]>>

UrlOf(k) == KeyUrl(today_utc, station, k)

DictOf(k) ==
    LET day == MinusDays(today_utc, k[1]) IN
    [url |-> UrlOf(k), year |-> day[1], month |-> day[2], day |-> day[3],
     hour |-> k[2], version |-> k[3]]

\* the existence check confirms a URL that answers HEAD with 200, or rejects
\* HEAD (403, 405, transport error) and answers GET with 200
Confirms(m) ==
    \/ ~m.head.exc /\ m.head.status = 200
    \/ /\ m.head.exc \/ m.head.status \in {403, 405}
       /\ ~m.get.exc /\ m.get.status = 200

\* the keys whose URLs exist
E == {k \in Space : Confirms(ServerMode(UrlOf(k)))}

Best(S) == CHOOSE k \in S : \A j \in S : Rank(k) <= Rank(j)

InSearch == pc \in {"loop", "head", "get"}
SearchReturned == pc \in {"found", "notfound"}

\* the call of url_exists last started has returned; hd and gt are its answers
CallReturned == Len(log) >= 1 /\ Len(rets) = Len(log)

\* C1: find_latest_csv returns None iff no URL of the search space exists, and
\* otherwise the dict of the existing key with the smallest day offset, then the
\* highest hour, then the earliest version; its url is the URL built from its
\* date, hour and version and the station.
C1_ReturnsNewestExisting ==
    SearchReturned =>
        /\ (found = None) <=> (E = {})
        /\ found # None =>
              /\ found[1] = DictOf(Best(E))
              /\ found[1].url = build_url(found[1].year, found[1].month, found[1].day,
                                          found[1].hour, found[1].version, station)

\* the scenario of the specification: only day offset 1 has files, hour 12 as
\* NBM4.1 and hour 5 as NBM4.2, and the search returned hour 12, NBM4.1
C1_Witness ==
    /\ pc = "found"
    /\ E = {<<1, 12, "NBM4.1">>, <<1, 5, "NBM4.2">>}
    /\ found[1].hour = 12
    /\ found[1].version = "NBM4.1"

\* C2: once url_exists has returned true the search makes no further existence
\* check: a true value is the last one returned, the search has then returned,
\* and no key ranked after the returned key was probed.
C2_StopsAtFirstTrue ==
    /\ \A i \in 1..Len(rets) :
          rets[i] => i = Len(rets) /\ i = Len(log) /\ ~InSearch
    /\ (SearchReturned /\ found # None) =>
          LET returned == CHOOSE k \in Space : DictOf(k) = found[1]
              later == {UrlOf(k) : k \in {j \in Space : Rank(j) > Rank(returned)}}
          IN  \A i \in 1..Len(log) : log[i] \notin later

\* two files exist and the search returned before the end of the space
C2_Witness ==
    /\ pc = "found"
    /\ Cardinality(E) = 2
    /\ Len(log) > 1
    /\ Len(log) < 216
    /\ rets[Len(rets)]

\* C3: when no URL of the search space exists the search goes on until it
\* returns None, which it does after exactly 216 calls of url_exists; no search
\* makes more than 216.
C3_NotFoundAfter216 ==
    /\ Len(log) <= 216
    /\ pc = "notfound" => Len(log) = 216 /\ Len(rets) = 216
    /\ (pc = "find" \/ InSearch) => ENABLED (FindCall \/ Probe \/ HeadRecv \/ GetRecv)
    /\ (SearchReturned /\ E = {}) => found = None /\ pc = "notfound"

\* nothing exists, the server rejects HEAD, and the search returned None
C3_Witness ==
    /\ pc = "notfound"
    /\ E = {}
    /\ dflt.head.status = 403
    /\ Len(log) = 216

\* C4 as stated: url_exists returns true exactly when HEAD answered 200, or HEAD
\* answered 403 or 405 or raised and the fallback GET answered a success (2xx)
\* status.
C4_TrueIffAnySuccess ==
    CallReturned =>
        (rets[Len(rets)] <=>
            \/ ~hd.exc /\ hd.status = 200
            \/ /\ hd.exc \/ hd.status \in {403, 405}
               /\ ~gt.exc /\ gt.status \in 200..299)

\* C4, amended: url_exists returns true exactly when HEAD answered 200, or HEAD
\* answered 403 or 405 or raised and the fallback GET answered 200; the GET is
\* sent only after HEAD answered 403 or 405 or raised; every other outcome is
\* false and no error leaves url_exists.
C4_TrueIff200 ==
    /\ err = NoError
    /\ pc # "failed"
    /\ pc = "get" => hd.exc \/ hd.status \in {403, 405}
    /\ CallReturned =>
          /\ hd # NoResp
          /\ (gt # NoResp) <=> (hd.exc \/ hd.status \in {403, 405})
          /\ rets[Len(rets)] <=>
                \/ ~hd.exc /\ hd.status = 200
                \/ /\ hd.exc \/ hd.status \in {403, 405}
                   /\ ~gt.exc /\ gt.status = 200

\* the scenario of the specification: HEAD answers 405, the GET answers 200,
\* and url_exists returned true
C4_Witness ==
    /\ CallReturned
    /\ ~hd.exc /\ hd.status = 405
    /\ ~gt.exc /\ gt.status = 200
    /\ rets[Len(rets)]

\* C7: no failure of an existence check ends the search or reaches the caller;
\* the search takes the failing key as absent and goes on with the next key in
\* priority order (or returns None after the last one).
C7_Inv ==
    /\ err = NoError
    /\ pc # "failed"
    /\ SearchReturned =>
          \A i \in 1..Len(log) :
             ~Confirms(ServerMode(log[i])) => ~rets[i] /\ (i < 216 => Len(log) > i)

C7_FailingAnswer ==
    \/ pc = "head" /\ ~requests_head(url).exc
                   /\ requests_head(url).status \notin {200, 403, 405}
    \/ pc = "get" /\ (requests_get(url).exc \/ requests_get(url).status # 200)

C7_Step ==
    (C7_FailingAnswer /\ pc' # pc) =>
        /\ err' = NoError
        /\ rets' = Append(rets, FALSE)
        /\ log' = log
        /\ IF Len(log) < 216 THEN pc' = "loop" ELSE pc' = "notfound" /\ found' = None

C7_FailuresAreAbsence == []C7_Inv /\ [][C7_Step]_vars

\* a key whose requests all time out was probed, and a later key was returned
C7_Witness ==
    /\ pc = "found"
    /\ \E i \in 1..Len(log) : i < Len(log) /\ ServerMode(log[i]) = TimesOut

\* C8: the URLs handed to url_exists are, in order, those of the first keys of
\* the fixed enumeration from the date read at the start of the search: none
\* lies outside the space and none is handed over twice.
C8_Inv ==
    /\ Len(log) <= 216
    /\ Len(log) >= 1 => log[Len(log)] = UrlOf(KeyAtRank(Len(log)))

C8_Step ==
    log' # log =>
        /\ Len(log') = Len(log) + 1
        /\ \A i \in 1..Len(log) : log'[i] = log[i] /\ log[i] # log'[Len(log')]

C8_ProbesArePrefix == []C8_Inv /\ [][C8_Step]_vars

\* a whole search was made and midnight passed while it ran
C8_Witness ==
    /\ pc = "notfound"
    /\ Len(log) = 216
    /\ today_utc # wallDate

\* C10 as stated: at most one request is in flight and a search issues at most
\* 216 requests, HEAD and GET together.
C10_AtMost216Requests ==
    /\ Cardinality(inflight) <= 1
    /\ nreq <= 216

\* C10, amended: at most one request is in flight, each existence check issues
\* at most two requests (HEAD, then the fallback GET), and a search issues at
\* most 2 x 216 = 432 requests, so it waits at most 432 timeouts.
C10_AtMost432Requests ==
    /\ Cardinality(inflight) <= 1
    /\ inflight # {} <=> pc \in {"head", "get"}
    /\ nreq <= 2 * Len(log)
    /\ nreq <= 432
    /\ nreq * TIMEOUT <= 8640

\* the server rejects every HEAD and the search issued 432 requests
C10_Witness ==
    /\ pc = "notfound"
    /\ nreq = 432

\* the script run has got the value of find_latest_csv(station)
AfterSearch == pc \in {"found", "notfound", "download", "downloaded", "previewing"}

\* C5 as stated: a search made less than 300 seconds after the last search for
\* the same station issues no HEAD and no GET and yields the same result.
C5_NoRequestAfterAnySearch ==
    (prior # None /\ pc # "idle" /\ now - prior[1].at < 300) =>
        /\ nreq = 0
        /\ log = <<>>
        /\ AfterSearch => found = prior[1].val

\* C5, amended: a search made less than 300 seconds after the last search for
\* the same station that ran the scan (was not itself answered by the cache)
\* issues no HEAD and no GET and yields that search's result, found or None.
C5_NoRequestAfterScan ==
    (priorBody # None /\ pc # "idle" /\ now - priorBody[1].at < 300) =>
        /\ nreq = 0
        /\ log = <<>>
        /\ pc \notin {"loop", "head", "get"}
        /\ AfterSearch => found = priorBody[1].val

\* a second search for a station, 150 seconds after a scan that ended None,
\* returned None without a request
C5_Witness ==
    /\ pc = "notfound"
    /\ priorBody # None
    /\ priorBody[1].val = None
    /\ now - priorBody[1].at = 150
    /\ nreq = 0

\* C6: download_csv_bytes returns bytes only when the download request answered
\* a 2xx status; every other status and every transport error raises, and the
\* failure ends the run.
C6_BytesOnly2xx ==
    dl # NoResp =>
        IF ~dl.exc /\ dl.status \in 200..299
        THEN csv_bytes # None
        ELSE csv_bytes = None /\ pc = "failed" /\ err # NoError /\ offered = None

\* C6, as the code behaves: bytes for every status raise_for_status lets pass
\* (anything outside 400..599), a failure that ends the run for the others.
C6_BytesUnless4xx5xx ==
    dl # NoResp =>
        IF ~dl.exc /\ dl.status \notin 400..599
        THEN csv_bytes # None /\ csv_bytes[1] = served[dlreqs[1]]
        ELSE csv_bytes = None /\ pc = "failed" /\ err # NoError /\ offered = None

\* C9: the user-facing states of a run follow idle -> searching -> (not found |
\* found -> downloading -> previewing); a download request goes only to the URL
\* a search returned, never after a search that found nothing; the preview and
\* the file, named {station}_{yyyyMMddHH}_{version}.csv after the found run,
\* come only after the download succeeded and hold the downloaded bytes.
UiState ==
    CASE pc \in {"find", "loop", "head", "get"} -> "searching"
      [] pc \in {"download", "downloaded"} -> "downloading"
      [] OTHER -> pc

UiOrder ==
    {<<"idle", "searching">>, <<"searching", "found">>, <<"searching", "notfound">>,
     <<"found", "downloading">>, <<"downloading", "previewing">>,
     <<"downloading", "failed">>,
     <<"notfound", "searching">>, <<"previewing", "searching">>,
     <<"failed", "searching">>}

C9_Inv ==
    /\ Len(dlreqs) <= 1
    /\ dlreqs # <<>> => found # None /\ dlreqs[1] = found[1].url
                        /\ found[1].url = UrlOf([i \in 1..3 |->
                               CHOOSE k \in Space : DictOf(k) = found[1]][1])
    /\ pc \in {"found", "download", "downloaded", "previewing"} => found # None
    /\ pc = "notfound" => found = None /\ dlreqs = <<>> /\ csv_bytes = None
    /\ (pc = "previewing") <=> (offered # None)
    /\ offered # None =>
          /\ csv_bytes # None
          /\ offered[1].data = csv_bytes[1]
          /\ offered[1].data = served[found[1].url]
          /\ offered[1].file_name =
                <<station, "_", Digits(found[1].year, 4), Digits(found[1].month, 2),
                  Digits(found[1].day, 2), Digits(found[1].hour, 2), "_",
                  found[1].version, ".csv">>

C9_Step == (UiState' # UiState) => <<UiState, UiState'>> \in UiOrder

C9_RunOrder == []C9_Inv /\ [][C9_Step]_vars

\* a run that found a file, downloaded it and shows the preview and the button
C9_Witness ==
    /\ pc = "previewing"
    /\ dlreqs # <<>>
    /\ offered # None
    /\ offered[1].data = "csvA"

====
